---- MODULE Spec2Model ----
(***************************************************************************)
(* Model of the command-line utilities of claude-agent-skills:             *)
(*   - the GitHub account data exporter (fetch.py): the pagination loop    *)
(*     _fetch_paginated_data and the fetch_all orchestration;              *)
(*   - the Imgur uploader (upload.py): upload_multiple_images;             *)
(*   - the language statistics of the exporter (fetch_language_stats);     *)
(*   - the Imgur OAuth token helper (get_token.py);                        *)
(*   - the image generator (generate.py);                                  *)
(*   - the playlist downloader (download.py).                              *)
(* Each component has its own specification over the shared variables; the *)
(* variables of the other components keep their initial values.            *)
(***************************************************************************)
EXTENDS Integers, Sequences, FiniteSets, TLC

\* ------------------------------------------------------------------------
\* Program constants and model bounds
\* ------------------------------------------------------------------------

\* fetch.py:99  per_page = 100
per_page == 100

\* Largest number of items a resource holds in PaginateSpec (three pages).
MaxItems == 201

\* Item contents repeat with this period, so a resource holds duplicate items.
ItemKinds == 3

\* StatsSpec: most repository detail files, largest language id, largest size.
MaxRepos == 3
MaxLang == 2
MaxSize == 3

\* UploadSpec: most image paths on the command line.
MaxPaths == 2

\* TokenSpec: most atoms of a pasted redirect URL.
MaxUrlLen == 4

\* Most faults (failed requests, unparsable bodies, malformed items) injected
\* into one exporter run.
MaxFaults == 2

\* DownloadSpec: largest playlist index given as --start or --end.
MaxIndex == 2

\* RerunSpec: most repositories the run fetched (and most names they bear),
\* most detail files an earlier run left behind.
MaxFetched == 2
MaxStale == 1

VARIABLES
    \* --- exporter: GitHubUserDataFetcher ---
    token,          \* self.token is set (BOOLEAN)
    step,           \* index in Catalogue of the current fetch step; 0 = a bare call
    pc,             \* control location of the exporter
    server,         \* the items the server holds for the resource being paginated
    page,           \* local `page` of _fetch_paginated_data
    all_data,       \* local `all_data` of _fetch_paginated_data
    requested,      \* history: the pages requested by the current call, in order
    last_outcome,   \* history: outcome of the last page request of the current call
    requests_made,  \* self.stats["requests_made"]
    data_fetched,   \* self.stats["data_fetched"]
    errors,         \* self.stats["errors"]
    files,          \* the files in the output directory: path -> number of
                    \* items saved
    repos_saved,    \* the files of repositories/details: one repository each
    repos_listed,   \* content of repositories/list.json
    languages_json, \* content of statistics/languages.json
    repositories_json, \* content of statistics/repositories.json
    metadata,       \* content of metadata.json ("statistics")
    started,        \* history: the resources whose fetch step began, in order
    faulted,        \* history: resource -> kind of the fault that hit it
    abort_step,     \* history: step whose exception reached fetch_all's handler; 0 = none
    interrupted,    \* history: a KeyboardInterrupt reached fetch_all's handler
    signalled,      \* history: a KeyboardInterrupt was raised in the try block
    closing,        \* history: the calls made by fetch_all's finally clause, in order
    account_n,      \* number of items every list endpoint of the account serves
    faults,         \* number of faults injected so far
    exit_code,      \* exit status of the exporter process; -1 while it runs
    \* --- uploader: upload.py ---
    up_args,        \* which of --client-id, --access-token, IMGUR_CLIENT_ID,
                    \* IMGUR_ACCESS_TOKEN are given (non-empty)
    up_paths,       \* args.images
    up_pc,          \* control location of the uploader
    up_client_id,   \* client_id passed to the uploads is non-empty
    up_access_token,\* access_token passed to the uploads is non-empty
    up_results,     \* `results` of upload_multiple_images
    up_sent,        \* history: the Authorization scheme of each request sent
    up_exit,        \* exit status of the uploader process; -1 while it runs
    \* --- token helper: get_token.py ---
    tk_pc,          \* control location of the helper
    tk_client_id,   \* the Client ID typed is non-empty
    tk_url,         \* the redirect URL pasted (after strip)
    tk_pasted,      \* history: a redirect URL was read
    tk_access_token,\* access_token extracted from the URL
    tk_expires_in,  \* expires_in extracted from the URL
    tk_written,     \* imgur_credentials.txt was opened for writing
    tk_exit,        \* exit status of the helper process; -1 while it runs
    \* --- image generator: generate.py ---
    gen_args,       \* OPENROUTER_API_KEY is set; --reference: not given, or a file
                    \* that is missing, unreadable or readable; the --output
                    \* file before the run: absent with its directory
                    \* (no_dir), absent, or old
    gen_pc,         \* control location of the generator
    gen_read,       \* history: the reference image was opened
    gen_sent,       \* history: the Authorization scheme of each request sent
    gen_response,   \* history: what came of the request; "none" before it
    gen_output,     \* the --output file: as before the run, new, or partial
    gen_exit,       \* exit status of the generator process; -1 while it runs
    \* --- playlist downloader: download.py ---
    dl_args,        \* the command line: accepted by the parser, rejected, or
                    \* asking for help; --start, --end and --quiet; whether
                    \* the --output directory can be made
    dl_pc,          \* control location of the downloader
    dl_runs,        \* history: the commands handed to subprocess.run, in order
    dl_status,      \* history: what came of the command; "none" before it
    dl_exit         \* exit status of the downloader process; -1 while it runs

exporter_vars == <<token, step, pc, server, page, all_data, requested, last_outcome,
                   requests_made, data_fetched, errors, files, repos_saved,
                   repos_listed, languages_json, repositories_json, metadata,
                   started, faulted,
                   abort_step, interrupted, signalled, closing, account_n, faults, exit_code>>

upload_vars == <<up_args, up_paths, up_pc, up_client_id, up_access_token,
                 up_results, up_sent, up_exit>>

token_vars == <<tk_pc, tk_client_id, tk_url, tk_pasted, tk_access_token,
                tk_expires_in, tk_written, tk_exit>>

generate_vars == <<gen_args, gen_pc, gen_read, gen_sent, gen_response,
                   gen_output, gen_exit>>

download_vars == <<dl_args, dl_pc, dl_runs, dl_status, dl_exit>>

vars == <<exporter_vars, upload_vars, token_vars, generate_vars, download_vars>>

\* ------------------------------------------------------------------------
\* Helpers
\* ------------------------------------------------------------------------

Min(a, b) == IF a < b THEN a ELSE b

EmptyMap == [x \in {} |-> 0]

Put(m, k, v) == (k :> v) @@ m

Range(s) == {s[i] : i \in 1..Len(s)}

\* The statistics files before they are written.
NoLanguages == [languages |-> EmptyMap, total_size_kb |-> 0, language_count |-> 0]

NoRepositories == [total_repos |-> 0, by_language |-> EmptyMap]

NoMetadata == [requests_made |-> 0, data_fetched |-> EmptyMap, errors |-> <<>>]

\* ------------------------------------------------------------------------
\* The server side of a paginated endpoint (what the loop reads)
\* ------------------------------------------------------------------------

\* A resource of n items. An item carries the fields the exporter reads later:
\* name (every item its own), language (0 stands for null) and size; the last
\* item is malformed (lacks a key the summary needs) when `bad`.
Items(n, bad) ==
    [i \in 1..n |-> [name |-> i,
                     language |-> i % ItemKinds,
                     size |-> i % 2,
                     valid |-> ~(bad /\ i = n)]]

NumPages(items) == (Len(items) + per_page - 1) \div per_page

\* response.json() of page p: the p-th slice of per_page items, [] past the end.
ServerPage(items, p) ==
    SubSeq(items, (p - 1) * per_page + 1, Min(p * per_page, Len(items)))

\* 'rel="next"' in response.headers["Link"]: the server names a next page
\* exactly when one exists.
HasNext(items, p) == p < NumPages(items)

\* ------------------------------------------------------------------------
\* The catalogue of fetch_all
\* ------------------------------------------------------------------------

\* Faulty variant: the collaboration data is fetched before the calendar.
Catalogue_SearchFirst ==
    << "profile", "repositories", "gists", "starred", "followers", "following",
       "organizations", "events", "subscriptions", "pull_requests", "issues",
       "contribution_calendar", "language_stats", "repository_stats" >>

\* The statements of fetch_all's try block (fetch.py:590-618), in order.
Catalogue ==
    << "profile", "repositories", "gists", "starred", "followers", "following",
       "organizations", "events", "subscriptions", "contribution_calendar",
       "pull_requests", "issues", "language_stats", "repository_stats" >>

StepOf(r) == CHOOSE i \in 1..Len(Catalogue) : Catalogue[i] = r

\* The resources fetched through _fetch_paginated_data.
Paginated ==
    { "repositories", "gists", "starred", "followers", "following",
      "organizations", "events", "subscriptions" }

\* The resources whose fetch method has no try/except of its own.
Core == { "profile", "repositories", "gists", "starred", "followers", "following" }

\* The resources whose fetch method wraps its body in try/except Exception.
Optional ==
    { "organizations", "events", "subscriptions", "contribution_calendar",
      "pull_requests", "issues" }

\* The endpoint named in an error message; a bare call has no catalogue entry.
Endpoint == IF step = 0 THEN "resource" ELSE Catalogue[step]

\* ------------------------------------------------------------------------
\* _fetch_paginated_data (fetch.py:86-130) and _make_request (fetch.py:62-84)
\* ------------------------------------------------------------------------

\* Faulty variant: the new page is put before the pages already held.
Extend_Prepend(all, data) == data \o all

\* all_data.extend(data)
Extend(all, data) == all \o data

\* Faulty variant: a page number is skipped.
NextPageNumber_Skip(p) == p + 2

\* page += 1
NextPageNumber(p) == p + 1

\* Faulty variant: the except branch throws the accumulated pages away.
KeptOnError_Reset(all) == <<>>

\* What the except branch of the loop leaves in all_data: it only prints and
\* breaks, so the pages accumulated so far are returned as they are.
KeptOnError(all) == all

\* The request succeeds and its body parses: an empty page ends the loop, a
\* page without a next link ends it after being appended, any other page is
\* appended and the next page number is taken.
PageOk ==
    LET data == ServerPage(server, page) IN
    /\ errors' = errors
    /\ faults' = faults
    /\ faulted' = faulted
    /\ abort_step' = abort_step
    /\ IF data = <<>>
       THEN /\ last_outcome' = "empty"
            /\ all_data' = all_data
            /\ page' = page
            /\ pc' = "returned"
       ELSE /\ all_data' = Extend(all_data, data)
            /\ IF HasNext(server, page)
               THEN /\ last_outcome' = "more"
                    /\ page' = NextPageNumber(page)
                    /\ pc' = "paging"
               ELSE /\ last_outcome' = "last"
                    /\ page' = page
                    /\ pc' = "returned"

\* Faulty variant: the loop has no except branch, the RequestException leaves
\* _fetch_paginated_data and reaches fetch_all.
PageFailed_Propagates ==
    /\ faults < MaxFaults
    /\ faults' = faults + 1
    /\ faulted' = Put(faulted, Endpoint, "request")
    /\ errors' = Append(errors, Endpoint)
    /\ last_outcome' = "failed"
    /\ all_data' = all_data
    /\ page' = page
    /\ abort_step' = step
    /\ pc' = "finally"

\* session.get or raise_for_status raises RequestException: _make_request
\* records the error and re-raises, the loop's except Exception breaks.
PageFailed ==
    /\ faults < MaxFaults
    /\ faults' = faults + 1
    /\ faulted' = Put(faulted, Endpoint, "request")
    /\ errors' = Append(errors, Endpoint)
    /\ last_outcome' = "failed"
    /\ all_data' = KeptOnError(all_data)
    /\ page' = page
    /\ abort_step' = abort_step
    /\ pc' = "returned"

\* The request succeeds but response.json() raises ValueError: no error is
\* recorded in the statistics, the loop's except Exception breaks.
PageUnparsable ==
    /\ faults < MaxFaults
    /\ faults' = faults + 1
    /\ faulted' = Put(faulted, Endpoint, "body")
    /\ errors' = errors
    /\ last_outcome' = "unparsable"
    /\ all_data' = KeptOnError(all_data)
    /\ page' = page
    /\ abort_step' = abort_step
    /\ pc' = "returned"

\* One iteration of the while loop: params["page"] = page, the request is
\* counted, sent, and its outcome handled.
FetchPage ==
    /\ pc = "paging"
    /\ requests_made' = requests_made + 1
    /\ requested' = Append(requested, page)
    /\ (PageOk \/ PageFailed \/ PageUnparsable)
    /\ UNCHANGED <<token, step, server, data_fetched, files, repos_saved, repos_listed,
                   languages_json, repositories_json, metadata, started, interrupted, signalled, closing, account_n,
                   exit_code>>
    /\ UNCHANGED <<upload_vars, token_vars, generate_vars, download_vars>>

\* ------------------------------------------------------------------------
\* fetch_language_stats (fetch.py:469-521), computed from the saved
\* repository detail files
\* ------------------------------------------------------------------------

\* `if language:` - null and "" are skipped; 0 stands for both.
HasLanguage(repo) == repo.language # 0

RECURSIVE SumTo(_, _)
\* f[1] + ... + f[n]
SumTo(f, n) == IF n = 0 THEN 0 ELSE f[n] + SumTo(f, n - 1)

\* language_stats[lang]["total_size_kb"]: the sizes of the files of one language.
SizeOf(repos, lang) ==
    SumTo([i \in 1..Len(repos) |->
              IF repos[i].language = lang THEN repos[i].size ELSE 0],
          Len(repos))

RECURSIVE TotalSize_FirstSeen(_)
\* Faulty variant: total_size grows only with one repository of each language.
TotalSize_FirstSeen(repos) ==
    IF repos = <<>> THEN 0
    ELSE (IF /\ HasLanguage(Head(repos))
             /\ \A i \in 2..Len(repos) : repos[i].language # Head(repos).language
          THEN Head(repos).size ELSE 0)
         + TotalSize_FirstSeen(Tail(repos))

\* total_size: incremented next to the per-language size, under `if language:`.
TotalSize(repos) ==
    SumTo([i \in 1..Len(repos) |->
              IF HasLanguage(repos[i]) THEN repos[i].size ELSE 0],
          Len(repos))

\* language_stats[lang]["repo_count"]
RepoCount(repos, lang) == Cardinality({i \in 1..Len(repos) : repos[i].language = lang})

\* round(a / b, 0) for b > 0: to the nearest integer, a tie to the even one.
RoundHalfEven(a, b) ==
    LET q == a \div b
        r == a % b
    IN  IF 2 * r < b THEN q
        ELSE IF 2 * r > b THEN q + 1
        ELSE IF q % 2 = 0 THEN q ELSE q + 1

\* Faulty variant: the factor 100 is forgotten.
Percentage_Fraction(size, total) ==
    IF total > 0 THEN RoundHalfEven(size * 100, total) ELSE 0

\* round((size / total_size * 100) if total_size > 0 else 0, 2), in hundredths
\* of a percent.
Percentage(size, total) ==
    IF total > 0 THEN RoundHalfEven(size * 100 * 100, total) ELSE 0

\* The object written to statistics/languages.json.
LanguageStats(repos) ==
    LET langs == {repos[i].language : i \in {j \in 1..Len(repos) : HasLanguage(repos[j])}}
        total == TotalSize(repos)
    IN  [languages |->
            [l \in langs |->
                LET size == SizeOf(repos, l)
                IN  [repo_count |-> RepoCount(repos, l),
                     total_size_kb |-> size,
                     percentage |-> Percentage(size, total)]],
         total_size_kb |-> total,
         language_count |-> Cardinality(langs)]

\* ------------------------------------------------------------------------
\* fetch_all (fetch.py:581-629) and the fetch methods it calls
\* ------------------------------------------------------------------------

Resource == Catalogue[step]

\* Faulty variant: no fetch method has a handler of its own.
Catches_None(r) == FALSE

\* Faulty variant: every fetch method has a handler of its own.
Catches_All(r) == TRUE

\* Whether the fetch method of resource r wraps its body in
\* try/except Exception (fetch.py:268, 290, 312, 356, 396, 434).
Catches(r) == r \in Optional

\* The next statement of fetch_all's try block; after the last one the
\* finally clause runs.
NextStep == step + 1

NextPc == IF step = Len(Catalogue) THEN "finally" ELSE "idle"

\* An exception leaves the try block of fetch_all: except Exception prints it,
\* the finally clause runs.
Propagate ==
    /\ abort_step' = step
    /\ step' = step
    /\ pc' = "finally"

Continue ==
    /\ abort_step' = abort_step
    /\ step' = NextStep
    /\ pc' = NextPc

\* Faulty variant: the handler of a fetch method records nothing.
Raise_NoEntry(r) ==
    IF Catches(r)
    THEN /\ data_fetched' = data_fetched
         /\ Continue
    ELSE /\ data_fetched' = data_fetched
         /\ Propagate

\* An exception raised in the body of resource r's fetch method: caught by the
\* method's own handler, which records a count of 0, or left to fetch_all.
Raise(r) ==
    IF Catches(r)
    THEN /\ data_fetched' = Put(data_fetched, r, 0)
         /\ Continue
    ELSE /\ data_fetched' = data_fetched
         /\ Propagate

\* fetch_profile (fetch.py:139-147): one request outside any handler.
FetchProfile ==
    /\ pc = "idle"
    /\ step > 0
    /\ Resource = "profile"
    /\ started' = Append(started, "profile")
    /\ requests_made' = requests_made + 1
    /\ \/ /\ files' = Put(files, "profile.json", 1)
          /\ data_fetched' = Put(data_fetched, "profile", TRUE)
          /\ Continue
          /\ UNCHANGED <<errors, faults, faulted>>
       \/ /\ faults < MaxFaults
          /\ faults' = faults + 1
          /\ faulted' = Put(faulted, "profile", "request")
          /\ errors' = Append(errors, "profile")
          /\ Raise("profile")
          /\ UNCHANGED files
       \/ /\ faults < MaxFaults
          /\ faults' = faults + 1
          /\ faulted' = Put(faulted, "profile", "body")
          /\ Raise("profile")
          /\ UNCHANGED <<errors, files>>
    /\ UNCHANGED <<token, server, page, all_data, requested, last_outcome,
                   repos_saved, repos_listed, languages_json, repositories_json, metadata, interrupted, signalled, closing,
                   account_n, exit_code>>
    /\ UNCHANGED <<upload_vars, token_vars, generate_vars, download_vars>>

\* The entry of _fetch_paginated_data (fetch.py:97-104) for the current
\* resource: all_data = [], page = 1. The server's items are fixed here.
BeginPaginated ==
    /\ pc = "idle"
    /\ step > 0
    /\ Resource \in Paginated
    /\ started' = Append(started, Resource)
    /\ \E bad \in BOOLEAN :
          /\ bad => (account_n > 0 /\ faults < MaxFaults)
          /\ faults' = IF bad THEN faults + 1 ELSE faults
          /\ server' = Items(account_n, bad)
    /\ page' = 1
    /\ all_data' = <<>>
    /\ requested' = <<>>
    /\ last_outcome' = "none"
    /\ pc' = "paging"
    /\ UNCHANGED <<token, step, requests_made, data_fetched, errors, files,
                   repos_saved, repos_listed, languages_json, repositories_json, metadata, faulted, abort_step,
                   interrupted, signalled, closing, account_n, exit_code>>
    /\ UNCHANGED <<upload_vars, token_vars, generate_vars, download_vars>>

\* The files a paginated fetch method writes for its items.
ListFile(r) ==
    CASE r = "repositories" -> "repositories/list.json"
      [] r = "gists" -> "gists/list.json"
      [] r = "starred" -> "starred/repositories.json"
      [] r = "followers" -> "social/followers.json"
      [] r = "following" -> "social/following.json"
      [] r = "organizations" -> "organizations.json"
      [] r = "events" -> "events/public_events.json"
      [] r = "subscriptions" -> "subscriptions.json"

\* repos_summary of fetch_repositories (fetch.py:158-167), as far as it
\* depends on the fields modelled: the size is not among its fields.
Summaries(repos) ==
    [i \in 1..Len(repos) |-> [name |-> repos[i].name,
                              language |-> repos[i].language]]

\* The loop of fetch_repositories over the repositories fetched
\* (fetch.py:172-175): each is saved as details/<name>.json, over the file of
\* that name if there is one (of an earlier run, or of a repository of the
\* same name saved before it), so a file holds the last repository of its
\* name; the other files stay.
SaveDetails(details, repos) ==
    LET Named(name) == \E i \in 1..Len(repos) : repos[i].name = name
        LastNamed(name) ==
            repos[CHOOSE i \in 1..Len(repos) :
                    /\ repos[i].name = name
                    /\ \A j \in (i + 1)..Len(repos) : repos[j].name # name]
        old == {details[i].name : i \in 1..Len(details)}
        kept == [i \in 1..Len(details) |->
                    IF Named(details[i].name) THEN LastNamed(details[i].name)
                    ELSE details[i]]
        IsNew(i) ==
            /\ repos[i].name \notin old
            /\ \A j \in 1..(i - 1) : repos[j].name # repos[i].name
        new == SelectSeq([i \in 1..Len(repos) |-> i], IsNew)
    IN  kept \o [k \in 1..Len(new) |-> LastNamed(repos[new[k]].name)]

\* _save_json of the list file and, for repositories and gists, of one detail
\* file per item (the details directory exists once a file is saved in it).
SaveList(r, items) ==
    LET listed == Put(files, ListFile(r), Len(items))
    IN  IF r \in {"repositories", "gists"} /\ Len(items) > 0
        THEN Put(listed, r \o "/details", Len(items))
        ELSE listed

\* The rest of a paginated fetch method, after _fetch_paginated_data returned:
\* build the summary (KeyError on a malformed item), save, count. The method
\* returns or raises, so the list it held and the response are gone.
ProcessPaginated ==
    /\ pc = "returned"
    /\ step > 0
    /\ IF \E i \in 1..Len(all_data) : ~all_data[i].valid
       THEN /\ faulted' = Put(faulted, Resource, "item")
            /\ Raise(Resource)
            /\ UNCHANGED <<files, repos_saved, repos_listed>>
       ELSE /\ files' = SaveList(Resource, all_data)
            /\ repos_saved' = IF Resource = "repositories"
                              THEN SaveDetails(repos_saved, all_data)
                              ELSE repos_saved
            /\ repos_listed' = IF Resource = "repositories"
                               THEN Summaries(all_data)
                               ELSE repos_listed
            /\ data_fetched' = Put(data_fetched, Resource, Len(all_data))
            /\ Continue
            /\ UNCHANGED faulted
    /\ all_data' = <<>>
    /\ server' = <<>>
    /\ UNCHANGED <<token, page, requested, last_outcome, requests_made, errors,
                   languages_json, repositories_json, metadata, started, interrupted, signalled, closing, account_n,
                   faults, exit_code>>
    /\ UNCHANGED <<upload_vars, token_vars, generate_vars, download_vars>>

\* Faulty variant: the error of a failed request is not recorded.
RequestFails_Unrecorded(r) ==
    /\ faults < MaxFaults
    /\ faults' = faults + 1
    /\ faulted' = Put(faulted, r, "request")
    /\ errors' = errors
    /\ Raise(r)

\* A request of _make_request or _make_graphql_request that raises
\* RequestException inside the fetch method of resource r: the error is
\* recorded, then the exception goes to the method's handler.
RequestFails(r) ==
    /\ faults < MaxFaults
    /\ faults' = faults + 1
    /\ faulted' = Put(faulted, r, "request")
    /\ errors' = Append(errors, r)
    /\ Raise(r)

\* A response whose body does not parse, or whose items lack a key: an
\* exception without an entry in errors.
ResponseMalformed(r, kind) ==
    /\ faults < MaxFaults
    /\ faults' = faults + 1
    /\ faulted' = Put(faulted, r, kind)
    /\ errors' = errors
    /\ Raise(r)

\* _make_graphql_request calls response.json() inside its try block
\* (fetch.py:345-351): the JSONDecodeError of a body that does not parse is a
\* RequestException in the versions of requests that define their own
\* (recorded like a failed request) and a plain ValueError in the older ones
\* (ResponseMalformed). No version is pinned, so either can happen.
DecodeFails(r) ==
    /\ faults < MaxFaults
    /\ faults' = faults + 1
    /\ faulted' = Put(faulted, r, "decode")
    /\ errors' = Append(errors, r)
    /\ Raise(r)

\* Faulty variant: the calendar is fetched whether or not a token was given.
CalendarGate_Open == TRUE

\* `if self.token:` (fetch.py:607): the calendar is fetched only with a token.
CalendarGate == token

\* fetch_contribution_calendar (fetch.py:353-391) behind `if self.token:`
\* (fetch.py:607-610): one GraphQL request; without a token the step is skipped.
\* The calendar saved holds the account's contributions, totalContributions in
\* all; a collection without contributionCalendar is saved before the KeyError
\* and holds none.
FetchContributionCalendar ==
    /\ pc = "idle"
    /\ step > 0
    /\ Resource = "contribution_calendar"
    /\ IF ~CalendarGate
       THEN /\ Continue
            /\ UNCHANGED <<started, requests_made, data_fetched, errors, files,
                           faults, faulted>>
       ELSE /\ started' = Append(started, Resource)
            /\ requests_made' = requests_made + 1
            /\ \/ /\ files' = Put(files, "contributions/calendar.json", account_n)
                  /\ data_fetched' = Put(data_fetched, Resource, account_n)
                  /\ Continue
                  /\ UNCHANGED <<errors, faults, faulted>>
               \/ /\ faults < MaxFaults
                  /\ faults' = faults + 1
                  /\ faulted' = Put(faulted, Resource, "nouser")
                  /\ data_fetched' = Put(data_fetched, Resource, 0)
                  /\ Continue
                  /\ UNCHANGED <<errors, files>>
               \/ /\ RequestFails(Resource)
                  /\ UNCHANGED files
               \/ /\ ResponseMalformed(Resource, "body")
                  /\ UNCHANGED files
               \/ /\ DecodeFails(Resource)
                  /\ UNCHANGED files
               \/ /\ ResponseMalformed(Resource, "item")
                  /\ files' = Put(files, "contributions/calendar.json", 0)
    /\ UNCHANGED <<token, server, page, all_data, requested, last_outcome,
                   repos_saved, repos_listed, languages_json, repositories_json, metadata, interrupted, signalled, closing,
                   account_n, exit_code>>
    /\ UNCHANGED <<upload_vars, token_vars, generate_vars, download_vars>>

\* fetch_pull_requests / fetch_issues (fetch.py:393-467): one search request
\* of at most per_page items; total_count is what the search reports.
FetchSearch(r, path) ==
    /\ pc = "idle"
    /\ step > 0
    /\ Resource = r
    /\ started' = Append(started, r)
    /\ requests_made' = requests_made + 1
    /\ \/ /\ files' = Put(files, path, Min(account_n, per_page))
          /\ data_fetched' = Put(data_fetched, r, account_n)
          /\ Continue
          /\ UNCHANGED <<errors, faults, faulted>>
       \/ /\ RequestFails(r)
          /\ UNCHANGED files
       \/ /\ ResponseMalformed(r, "body")
          /\ UNCHANGED files
       \/ /\ account_n > 0
          /\ ResponseMalformed(r, "item")
          /\ UNCHANGED files
    /\ UNCHANGED <<token, server, page, all_data, requested, last_outcome,
                   repos_saved, repos_listed, languages_json, repositories_json, metadata, interrupted, signalled, closing,
                   account_n, exit_code>>
    /\ UNCHANGED <<upload_vars, token_vars, generate_vars, download_vars>>

FetchPullRequests == FetchSearch("pull_requests", "pull_requests/created.json")

FetchIssues == FetchSearch("issues", "issues/created.json")

\* Faulty variant: the check for the details directory is gone.
ReposDirExists_Always == TRUE

\* repos_dir.exists() (fetch.py:474-475): the directory exists once a detail
\* file was saved in it.
ReposDirExists == "repositories/details" \in DOMAIN files

\* repos_list_file.exists() (fetch.py:528-529)
ReposListFileExists == "repositories/list.json" \in DOMAIN files

\* fetch_language_stats (fetch.py:469-521): reads repositories/details; returns
\* without a word in the statistics when the directory is missing.
FetchLanguageStats ==
    /\ pc = "idle"
    /\ step > 0
    /\ Resource = "language_stats"
    /\ started' = Append(started, Resource)
    /\ IF ~ReposDirExists
       THEN UNCHANGED <<languages_json, files, data_fetched>>
       ELSE LET stats == LanguageStats(repos_saved) IN
            /\ languages_json' = stats
            /\ files' = Put(files, "statistics/languages.json", stats.language_count)
            /\ data_fetched' = Put(data_fetched, Resource, stats.language_count)
    /\ Continue
    /\ UNCHANGED <<token, server, page, all_data, requested, last_outcome,
                   requests_made, errors, repos_saved, repos_listed,
                   repositories_json, metadata, faulted,
                   interrupted, signalled, closing, account_n, faults, exit_code>>
    /\ UNCHANGED <<upload_vars, token_vars, generate_vars, download_vars>>

\* The object written to statistics/repositories.json (fetch.py:535-561), as
\* far as it depends on the fields modelled: the stars and forks are left out.
RepositoryStats(repos) ==
    LET langs == {repos[i].language : i \in {j \in 1..Len(repos) : HasLanguage(repos[j])}}
    IN  [total_repos |-> Len(repos),
         by_language |-> [l \in langs |-> [repos |-> RepoCount(repos, l)]]]

\* fetch_repository_stats (fetch.py:523-566): reads repositories/list.json.
FetchRepositoryStats ==
    /\ pc = "idle"
    /\ step > 0
    /\ Resource = "repository_stats"
    /\ started' = Append(started, Resource)
    /\ IF ~ReposListFileExists
       THEN UNCHANGED <<repositories_json, files, data_fetched>>
       ELSE /\ repositories_json' = RepositoryStats(repos_listed)
            /\ files' = Put(files, "statistics/repositories.json", 1)
            /\ data_fetched' = Put(data_fetched, Resource, TRUE)
    /\ Continue
    /\ UNCHANGED <<token, server, page, all_data, requested, last_outcome,
                   requests_made, errors, repos_saved, repos_listed,
                   languages_json, metadata,
                   faulted, interrupted, signalled, closing, account_n, faults, exit_code>>
    /\ UNCHANGED <<upload_vars, token_vars, generate_vars, download_vars>>

\* Faulty variant: the handlers are bare `except:` clauses, which match
\* KeyboardInterrupt too.
ExceptMatches_Bare(exc) == TRUE

\* Whether an `except Exception` clause (fetch.py:126, 283, 305, 327, 389,
\* 427, 465) matches a raised exception: KeyboardInterrupt derives from
\* BaseException only.
ExceptMatches(exc) == exc # "KeyboardInterrupt"

\* KeyboardInterrupt raised while the try block of fetch_all runs: inside the
\* pagination loop it passes the loop's handler, inside a fetch method the
\* method's handler, and reaches `except KeyboardInterrupt` (fetch.py:620).
Interrupt ==
    /\ pc \in {"idle", "paging", "returned"}
    /\ step > 0
    /\ signalled' = TRUE
    /\ IF pc = "paging" /\ ExceptMatches("KeyboardInterrupt")
       THEN /\ pc' = "returned"
            /\ last_outcome' = "failed"
            /\ UNCHANGED <<step, data_fetched, interrupted, abort_step>>
       ELSE IF Catches(Resource) /\ ExceptMatches("KeyboardInterrupt")
       THEN /\ data_fetched' = Put(data_fetched, Resource, 0)
            /\ Continue
            /\ UNCHANGED <<last_outcome, interrupted>>
       ELSE /\ interrupted' = TRUE
            /\ pc' = "finally"
            /\ UNCHANGED <<step, data_fetched, last_outcome, abort_step>>
    /\ UNCHANGED <<token, server, page, all_data, requested, requests_made,
                   errors, files, repos_saved, repos_listed, languages_json, repositories_json, metadata,
                   started, faulted, closing, account_n, faults, exit_code>>
    /\ UNCHANGED <<upload_vars, token_vars, generate_vars, download_vars>>

\* Faulty variant: the summary is printed before the metadata is saved.
Finally_SummaryFirst == <<"print_summary", "save_metadata">>

\* The calls of the finally clause (fetch.py:624-629), in order.
Finally == <<"save_metadata", "print_summary">>

\* The finally clause: save_metadata (fetch.py:568-579) writes the statistics
\* to metadata.json, print_summary prints them; then fetch_all returns to
\* main and the process ends: main never calls sys.exit (fetch.py:701).
Finish ==
    /\ pc = "finally"
    /\ closing' = closing \o Finally
    /\ metadata' = [requests_made |-> requests_made,
                    data_fetched |-> data_fetched,
                    errors |-> errors]
    /\ files' = Put(files, "metadata.json", 1)
    /\ exit_code' = 0
    /\ pc' = "exited"
    /\ UNCHANGED <<token, step, server, page, all_data, requested, last_outcome,
                   requests_made, data_fetched, errors, repos_saved, repos_listed,
                   languages_json, repositories_json, started, faulted, abort_step, interrupted,
                   signalled, account_n, faults>>
    /\ UNCHANGED <<upload_vars, token_vars, generate_vars, download_vars>>

\* ------------------------------------------------------------------------
\* The Imgur uploader (upload.py)
\* ------------------------------------------------------------------------

\* The image paths tried: a file that does not exist, a file that is no
\* image, an image.
Paths == {"missing.png", "notes.txt", "photo.png"}

\* os.path.exists(image_path)
Exists(path) == path # "missing.png"

\* Path(image_path).suffix.lower() in valid_extensions
ValidExtension(path) == path # "notes.txt"

\* What can happen to a request that is sent: HTTP 200 with success true and
\* a data object, with success true and data that is no object (null, true),
\* or with success false; another status; requests.Timeout; another
\* RequestException; any other exception (a body that is no JSON object).
Outcomes ==
    {"success", "no_data", "api_false", "http_error", "timeout", "network",
     "unexpected"}

\* Faulty variant: the client id is looked at first.
Scheme_ClientIdFirst(client_id, access_token) ==
    IF client_id THEN "Client-ID"
    ELSE IF access_token THEN "Bearer"
    ELSE "none"

\* The Authorization header of upload_image_to_imgur (upload.py:76-89).
Scheme(client_id, access_token) ==
    IF access_token THEN "Bearer"
    ELSE IF client_id THEN "Client-ID"
    ELSE "none"

\* Whether upload_image_to_imgur gets as far as requests.post.
Sends(path, client_id, access_token) ==
    /\ Exists(path)
    /\ ValidExtension(path)
    /\ Scheme(client_id, access_token) # "none"

\* upload_image_to_imgur (upload.py:30-148): the result dictionary. success
\* is set (upload.py:114) before imgur_data is built from data.get(...)
\* (upload.py:115-129): when data is no object the AttributeError is caught
\* by `except Exception`, which sets error and leaves success and imgur_data
\* as they are.
UploadImage(path, client_id, access_token, outcome) ==
    LET result == [original_path |-> path,
                   success |-> FALSE,
                   error |-> "none",
                   upload_type |-> IF access_token THEN "authenticated"
                                   ELSE "anonymous",
                   imgur_data |-> "none"]
    IN  IF ~Exists(path)
        THEN [result EXCEPT !.error = "File not found"]
        ELSE IF ~ValidExtension(path)
        THEN [result EXCEPT !.error = "Invalid image format"]
        ELSE IF Scheme(client_id, access_token) = "none"
        THEN [result EXCEPT !.error = "No authentication provided"]
        ELSE CASE outcome = "success" ->
                    [result EXCEPT !.success = TRUE, !.imgur_data = "data"]
               [] outcome = "no_data" ->
                    [result EXCEPT !.success = TRUE, !.error = "Unexpected error"]
               [] outcome = "api_false" ->
                    [result EXCEPT !.error = "Imgur API returned success=false"]
               [] outcome = "http_error" -> [result EXCEPT !.error = "HTTP error"]
               [] outcome = "timeout" -> [result EXCEPT !.error = "Request timeout"]
               [] outcome = "network" -> [result EXCEPT !.error = "Network error"]
               [] outcome = "unexpected" -> [result EXCEPT !.error = "Unexpected error"]

\* Faulty variant: a file that was not found is counted nowhere.
Tally_SkipMissing(results, result) ==
    [results EXCEPT
        !.uploads = Append(@, result),
        !.successful = IF result.success THEN @ + 1 ELSE @,
        !.failed = IF ~result.success /\ result.error # "File not found"
                   THEN @ + 1 ELSE @]

\* The body of the loop of upload_multiple_images after the upload
\* (upload.py:180-185): append the result, count it.
Tally(results, result) ==
    [results EXCEPT
        !.uploads = Append(@, result),
        !.successful = IF result.success THEN @ + 1 ELSE @,
        !.failed = IF result.success THEN @ ELSE @ + 1]

NoResults == [total |-> 0, successful |-> 0, failed |-> 0, uploads |-> <<>>]

\* main up to the call of upload_multiple_images (upload.py:294-315) with
\* get_authentication (upload.py:190-221) and the creation of `results`
\* (upload.py:167-172). DEFAULT_CLIENT_ID is the placeholder, so it is no
\* client id.
UploadStart ==
    /\ up_pc = "start"
    /\ IF up_args.flag_client_id \/ up_args.flag_access_token
       THEN /\ up_client_id' = up_args.flag_client_id
            /\ up_access_token' = up_args.flag_access_token
            /\ up_pc' = "uploading"
            /\ up_results' = [NoResults EXCEPT !.total = Len(up_paths)]
            /\ up_exit' = up_exit
       ELSE IF ~up_args.env_access_token /\ ~up_args.env_client_id
       THEN /\ up_pc' = "exited"
            /\ up_exit' = 1
            /\ UNCHANGED <<up_client_id, up_access_token, up_results>>
       ELSE /\ up_client_id' = up_args.env_client_id
            /\ up_access_token' = up_args.env_access_token
            /\ up_pc' = "uploading"
            /\ up_results' = [NoResults EXCEPT !.total = Len(up_paths)]
            /\ up_exit' = up_exit
    /\ UNCHANGED <<up_args, up_paths, up_sent>>
    /\ UNCHANGED <<exporter_vars, token_vars, generate_vars, download_vars>>

\* Faulty variant: the loop is left at the first file that failed.
Exhausted_OnFailure(results, paths) ==
    Len(results.uploads) = Len(paths) \/ results.failed > 0

\* `for image_path in image_paths` (upload.py:174) has gone through the paths.
Exhausted(results, paths) == Len(results.uploads) = Len(paths)

\* One iteration of the loop of upload_multiple_images (upload.py:174-185).
UploadNext ==
    /\ up_pc = "uploading"
    /\ ~Exhausted(up_results, up_paths)
    /\ LET path == up_paths[Len(up_results.uploads) + 1]
           sends == Sends(path, up_client_id, up_access_token)
       IN  \E outcome \in (IF sends THEN Outcomes ELSE {"unsent"}) :
              /\ up_results' =
                    Tally(up_results,
                          UploadImage(path, up_client_id, up_access_token, outcome))
              /\ up_sent' = IF sends
                            THEN Append(up_sent, Scheme(up_client_id, up_access_token))
                            ELSE up_sent
    /\ UNCHANGED <<up_args, up_paths, up_pc, up_client_id, up_access_token, up_exit>>
    /\ UNCHANGED <<exporter_vars, token_vars, generate_vars, download_vars>>

\* Printing the links of the successful uploads (upload.py:338-347) reads
\* upload['imgur_data']['link']: a TypeError when imgur_data is None.
LinksRaise(results) ==
    \E i \in 1..Len(results.uploads) :
        results.uploads[i].success /\ results.uploads[i].imgur_data = "none"

\* The exit status main ends with (upload.py:338-350): 1 from the uncaught
\* TypeError, else sys.exit(0 if results["failed"] == 0 else 1).
ExitStatus(results) ==
    IF LinksRaise(results) THEN 1
    ELSE IF results.failed = 0 THEN 0 ELSE 1

\* The rest of main after upload_multiple_images returned (upload.py:317-350):
\* the summary and the JSON are printed, the links, and the process exits.
UploadExit ==
    /\ up_pc = "uploading"
    /\ Exhausted(up_results, up_paths)
    /\ up_pc' = "exited"
    /\ up_exit' = ExitStatus(up_results)
    /\ UNCHANGED <<up_args, up_paths, up_client_id, up_access_token, up_results,
                   up_sent>>
    /\ UNCHANGED <<exporter_vars, token_vars, generate_vars, download_vars>>

\* ------------------------------------------------------------------------
\* The OAuth token helper (get_token.py)
\* ------------------------------------------------------------------------

\* A redirect URL is a sequence of atoms: the two field names the control flow
\* depends on, the separator, a digit and another character.
Atoms == {"access_token=", "expires_in=", "&", "7", "x"}

Urls == UNION {[1..n -> Atoms] : n \in 0..MaxUrlLen}

\* The end of the longest run of atoms other than "&" that starts at i.
RunEnd(url, i) ==
    CHOOSE j \in i..Len(url) :
        /\ \A k \in i..j : url[k] # "&"
        /\ j = Len(url) \/ url[j + 1] = "&"

\* re.search(field + r'([^&]+)', url).group(1): the value after the leftmost
\* occurrence of the field name that is followed by a character other than
\* "&"; <<>> stands for no match.
Search(field, url) ==
    LET at == {i \in 1..(Len(url) - 1) : url[i] = field /\ url[i + 1] # "&"}
    IN  IF at = {} THEN <<>>
        ELSE LET i == CHOOSE m \in at : \A n \in at : m <= n
             IN  SubSeq(url, i + 1, RunEnd(url, i + 1))

\* Faulty variant: the check for a missing access_token is gone.
TokenMissing_Never(url) == FALSE

\* `if not access_token_match:` (get_token.py:83)
TokenMissing(url) == Search("access_token=", url) = <<>>

\* int(expires_in) succeeds (get_token.py:123): the value is made of digits.
IsInt(value) == \A i \in 1..Len(value) : value[i] = "7"

\* input("Client ID: ") and the check that follows (get_token.py:24-28).
TokenReadClientId ==
    /\ tk_pc = "client_id"
    /\ \E given \in BOOLEAN :
          /\ tk_client_id' = given
          /\ IF given
             THEN tk_pc' = "url" /\ tk_exit' = tk_exit
             ELSE tk_pc' = "exited" /\ tk_exit' = 1
    /\ UNCHANGED <<tk_url, tk_pasted, tk_access_token, tk_expires_in, tk_written>>
    /\ UNCHANGED <<exporter_vars, upload_vars, generate_vars, download_vars>>

\* input("URL: ") and everything up to the next prompt (get_token.py:67-143):
\* an empty URL or a URL without access_token exits with 1; so does the
\* ValueError of int(expires_in), through the handler at get_token.py:182.
TokenReadUrl ==
    /\ tk_pc = "url"
    /\ \E url \in Urls :
          /\ tk_url' = url
          /\ tk_pasted' = TRUE
          /\ IF url = <<>> \/ TokenMissing(url)
             THEN /\ tk_pc' = "exited"
                  /\ tk_exit' = 1
                  /\ UNCHANGED <<tk_access_token, tk_expires_in>>
             ELSE /\ tk_access_token' = Search("access_token=", url)
                  /\ tk_expires_in' = Search("expires_in=", url)
                  /\ IF IsInt(Search("expires_in=", url))
                     THEN tk_pc' = "save" /\ tk_exit' = tk_exit
                     ELSE tk_pc' = "exited" /\ tk_exit' = 1
    /\ UNCHANGED <<tk_client_id, tk_written>>
    /\ UNCHANGED <<exporter_vars, upload_vars, generate_vars, download_vars>>

\* input("...(y/n): ") and the rest of main (get_token.py:146-173): on "y" the
\* credentials file is opened for writing, which may fail (caught); main
\* returns and the process ends with 0.
TokenSave ==
    /\ tk_pc = "save"
    /\ \E answer \in {"y", "n"}, opened \in BOOLEAN :
          tk_written' = (answer = "y" /\ opened)
    /\ tk_pc' = "exited"
    /\ tk_exit' = 0
    /\ UNCHANGED <<tk_client_id, tk_url, tk_pasted, tk_access_token, tk_expires_in>>
    /\ UNCHANGED <<exporter_vars, upload_vars, generate_vars, download_vars>>

\* Ctrl-C at a prompt: KeyboardInterrupt reaches the handler at
\* get_token.py:179, which exits with 0.
TokenInterrupt ==
    /\ tk_pc \in {"client_id", "url", "save"}
    /\ tk_pc' = "exited"
    /\ tk_exit' = 0
    /\ UNCHANGED <<tk_client_id, tk_url, tk_pasted, tk_access_token,
                   tk_expires_in, tk_written>>
    /\ UNCHANGED <<exporter_vars, upload_vars, generate_vars, download_vars>>

\* ------------------------------------------------------------------------
\* The image generator (generate.py)
\* ------------------------------------------------------------------------

\* Faulty variant: the check for a missing API key is gone.
ApiKeyMissing_Never(args) == FALSE

\* `if not api_key:` (generate.py:31): OPENROUTER_API_KEY is unset or empty.
ApiKeyMissing(args) == ~args.api_key

\* The Authorization header of generate_image (generate.py:90-93).
GenScheme(args) == IF args.api_key THEN "Bearer" ELSE "none"

\* What can come of the request (generate.py:136-180): HTTP 200 with an image
\* in choices[0].message.images or in the root images field, or with no image;
\* another status; requests.Timeout; another RequestException; any other
\* exception (a body that is no JSON, an image entry without image_url).
Responses ==
    {"image", "root_image", "no_image", "http_error", "timeout", "network",
     "unexpected"}

\* generate_image returns an image (generate.py:158, 165).
CarriesImage(response) == response \in {"image", "root_image"}

\* Faulty variant: a response without an image is passed on to be saved.
ResponseAccepted_Any(response) == response \in {"image", "root_image", "no_image"}

\* The responses after which generate_image returns instead of exiting.
ResponseAccepted(response) == CarriesImage(response)

\* What can come of save_base64_image (generate.py:183-215): the file is
\* written, after its directory was made if need be; the data does not
\* decode; the file cannot be opened; the write fails after the file was
\* opened (and truncated).
SaveOutcomes == {"written", "undecodable", "unwritable", "partial"}

\* main up to the call of generate_image (generate.py:269-277): get_api_key
\* (generate.py:25-38) exits with 1 when the key is missing.
GetApiKey ==
    /\ gen_pc = "start"
    /\ IF ApiKeyMissing(gen_args)
       THEN gen_pc' = "exited" /\ gen_exit' = 1
       ELSE gen_pc' = "generate" /\ gen_exit' = gen_exit
    /\ UNCHANGED <<gen_args, gen_read, gen_sent, gen_response, gen_output>>
    /\ UNCHANGED <<exporter_vars, upload_vars, token_vars, download_vars>>

\* generate_image (generate.py:67-180) with encode_image_to_base64
\* (generate.py:41-64): a reference that is missing or cannot be read exits
\* with 1 before the request; the one requests.post; every outcome but an
\* image exits with 1.
GenerateImage ==
    /\ gen_pc = "generate"
    /\ IF gen_args.reference = "missing"
       THEN /\ gen_pc' = "exited"
            /\ gen_exit' = 1
            /\ UNCHANGED <<gen_read, gen_sent, gen_response>>
       ELSE IF gen_args.reference = "unreadable"
       THEN /\ gen_read' = TRUE
            /\ gen_pc' = "exited"
            /\ gen_exit' = 1
            /\ UNCHANGED <<gen_sent, gen_response>>
       ELSE /\ gen_read' = (gen_args.reference = "readable")
            /\ gen_sent' = Append(gen_sent, GenScheme(gen_args))
            /\ \E response \in Responses :
                  /\ gen_response' = response
                  /\ IF ResponseAccepted(response)
                     THEN gen_pc' = "save" /\ gen_exit' = gen_exit
                     ELSE gen_pc' = "exited" /\ gen_exit' = 1
    /\ UNCHANGED <<gen_args, gen_output>>
    /\ UNCHANGED <<exporter_vars, upload_vars, token_vars, download_vars>>

\* save_base64_image (generate.py:183-215) and the return of main
\* (generate.py:290): exit status 0 after the file was written, 1 otherwise.
SaveImage ==
    /\ gen_pc = "save"
    /\ \E saved \in SaveOutcomes :
          /\ gen_output' = CASE saved = "written" -> "new"
                             [] saved = "partial" -> "partial"
                             [] OTHER -> gen_output
          /\ gen_exit' = IF saved = "written" THEN 0 ELSE 1
    /\ gen_pc' = "exited"
    /\ UNCHANGED <<gen_args, gen_read, gen_sent, gen_response>>
    /\ UNCHANGED <<exporter_vars, upload_vars, token_vars, download_vars>>

\* ------------------------------------------------------------------------
\* The playlist downloader (download.py)
\* ------------------------------------------------------------------------

\* Faulty variant: the check of the starting index is gone.
ValidRange_NoLower(start, end) == end >= start

\* The validation of main (download.py:155-161): neither `args.start < 1`
\* nor `args.end < args.start`.
ValidRange(start, end) == start >= 1 /\ end >= start

\* The command built by download_playlist (download.py:37-57), as far as it
\* depends on the arguments modelled.
Command(args) ==
    [binary |-> "yt-dlp",
     playlist_start |-> args.start,
     playlist_end |-> args.end,
     no_progress |-> args.quiet]

\* What can come of subprocess.run(cmd, check=True) (download.py:77): the
\* binary exits with 0 or with another status (CalledProcessError), is not
\* found (FileNotFoundError), cannot be executed (PermissionError, caught
\* nowhere), or the run is interrupted (KeyboardInterrupt, caught nowhere).
RunOutcomes == {"zero", "nonzero", "not_found", "not_executable", "interrupted"}

\* The exit status after subprocess.run (download.py:77-88, 175): the value
\* download_playlist returns, 1 from an uncaught exception, 130 from an
\* uncaught KeyboardInterrupt.
ExitAfter(outcome) ==
    CASE outcome = "zero" -> 0
      [] outcome = "interrupted" -> 130
      [] OTHER -> 1

\* main up to the call of download_playlist (download.py:92-161):
\* parse_args prints the help and exits with 0, or rejects the command line
\* (no --url, an index that is no integer) and exits with 2; an invalid range
\* returns 1.
DownloadMain ==
    /\ dl_pc = "start"
    /\ IF dl_args.line = "help"
       THEN dl_pc' = "exited" /\ dl_exit' = 0
       ELSE IF dl_args.line = "rejected"
       THEN dl_pc' = "exited" /\ dl_exit' = 2
       ELSE IF ~ValidRange(dl_args.start, dl_args.end)
       THEN dl_pc' = "exited" /\ dl_exit' = 1
       ELSE dl_pc' = "download" /\ dl_exit' = dl_exit
    /\ UNCHANGED <<dl_args, dl_runs, dl_status>>
    /\ UNCHANGED <<exporter_vars, upload_vars, token_vars, generate_vars>>

\* download_playlist (download.py:13-88) and sys.exit(main())
\* (download.py:175): the output directory is made (an OSError is caught
\* nowhere), the command is built and run once.
DownloadPlaylist ==
    /\ dl_pc = "download"
    /\ IF ~dl_args.output_ok
       THEN /\ dl_exit' = 1
            /\ UNCHANGED <<dl_runs, dl_status>>
       ELSE /\ dl_runs' = Append(dl_runs, Command(dl_args))
            /\ \E outcome \in RunOutcomes :
                  /\ dl_status' = outcome
                  /\ dl_exit' = ExitAfter(outcome)
    /\ dl_pc' = "exited"
    /\ UNCHANGED dl_args
    /\ UNCHANGED <<exporter_vars, upload_vars, token_vars, generate_vars>>

\* ------------------------------------------------------------------------
\* The components at rest
\* ------------------------------------------------------------------------

UploadOff ==
    /\ up_args = [flag_client_id |-> FALSE, flag_access_token |-> FALSE,
                  env_client_id |-> FALSE, env_access_token |-> FALSE]
    /\ up_paths = <<>>
    /\ up_pc = "off"
    /\ up_client_id = FALSE
    /\ up_access_token = FALSE
    /\ up_results = NoResults
    /\ up_sent = <<>>
    /\ up_exit = -1

TokenOff ==
    /\ tk_pc = "off"
    /\ tk_client_id = FALSE
    /\ tk_url = <<>>
    /\ tk_pasted = FALSE
    /\ tk_access_token = <<>>
    /\ tk_expires_in = <<>>
    /\ tk_written = FALSE
    /\ tk_exit = -1

GenerateOff ==
    /\ gen_args = [api_key |-> FALSE, reference |-> "none", output |-> "absent"]
    /\ gen_pc = "off"
    /\ gen_read = FALSE
    /\ gen_sent = <<>>
    /\ gen_response = "none"
    /\ gen_output = "absent"
    /\ gen_exit = -1

DownloadOff ==
    /\ dl_args = [line |-> "accepted", start |-> 1, end |-> 1, quiet |-> FALSE,
                  output_ok |-> TRUE]
    /\ dl_pc = "off"
    /\ dl_runs = <<>>
    /\ dl_status = "none"
    /\ dl_exit = -1

\* ------------------------------------------------------------------------
\* PaginateSpec: one call of _fetch_paginated_data on a fresh fetcher, for
\* every resource size up to MaxItems
\* ------------------------------------------------------------------------

\* GitHubUserDataFetcher.__init__ (fetch.py:29-60): empty statistics; nothing
\* requested, written or raised yet.
FreshStatistics ==
    /\ page = 1
    /\ all_data = <<>>
    /\ requested = <<>>
    /\ last_outcome = "none"
    /\ requests_made = 0
    /\ data_fetched = EmptyMap
    /\ errors = <<>>
    /\ languages_json = NoLanguages
    /\ repositories_json = NoRepositories
    /\ metadata = NoMetadata
    /\ started = <<>>
    /\ faulted = EmptyMap
    /\ abort_step = 0
    /\ interrupted = FALSE
    /\ signalled = FALSE
    /\ closing = <<>>
    /\ faults = 0
    /\ exit_code = -1

\* A fresh fetcher on an output directory without files.
FreshFetcher ==
    /\ FreshStatistics
    /\ files = EmptyMap

InitPaginate ==
    /\ FreshFetcher
    /\ token = FALSE
    /\ step = 0
    /\ pc = "paging"
    /\ \E n \in 0..MaxItems : server = Items(n, FALSE)
    /\ repos_saved = <<>>
    /\ repos_listed = <<>>
    /\ account_n = 0
    /\ UploadOff
    /\ TokenOff
    /\ GenerateOff
    /\ DownloadOff

NextPaginate == FetchPage

\* Every request returns or times out (timeout=30), so an iteration that is
\* due is eventually taken.
PaginateSpec == InitPaginate /\ [][NextPaginate]_vars /\ WF_vars(FetchPage)

\* ------------------------------------------------------------------------
\* Spec: one run of the exporter (main -> fetch_all) on an empty output
\* directory that can be written
\* ------------------------------------------------------------------------

\* The sizes of the account's resources tried: none, one item, two pages.
AccountSizes == {0, 1, per_page + 1}

Init ==
    /\ FreshFetcher
    /\ token \in BOOLEAN
    /\ step = 1
    /\ pc = "idle"
    /\ server = <<>>
    /\ repos_saved = <<>>
    /\ repos_listed = <<>>
    /\ account_n \in AccountSizes
    /\ UploadOff
    /\ TokenOff
    /\ GenerateOff
    /\ DownloadOff

Next ==
    \/ FetchProfile
    \/ BeginPaginated
    \/ FetchPage
    \/ ProcessPaginated
    \/ FetchContributionCalendar
    \/ FetchPullRequests
    \/ FetchIssues
    \/ FetchLanguageStats
    \/ FetchRepositoryStats
    \/ Interrupt
    \/ Finish

Spec == Init /\ [][Next]_vars

\* ------------------------------------------------------------------------
\* StatsSpec: fetch_language_stats on every small set of repository detail
\* files (one file per element of repos_saved)
\* ------------------------------------------------------------------------

RepoFiles ==
    [language : 0..MaxLang, size : 0..MaxSize, valid : {TRUE}]

\* The exporter halted, so that another component can run alone.
ExporterOff ==
    /\ FreshFetcher
    /\ token = FALSE
    /\ step = 0
    /\ pc = "off"
    /\ server = <<>>
    /\ repos_saved = <<>>
    /\ repos_listed = <<>>
    /\ account_n = 0

\* fetch_all has reached fetch_language_stats; the repository step has left
\* any list of detail files behind (none, or an empty directory, included).
InitStats ==
    /\ FreshStatistics
    /\ token = FALSE
    /\ step = StepOf("language_stats")
    /\ pc = "idle"
    /\ server = <<>>
    /\ account_n = 0
    /\ \E n \in 0..MaxRepos : repos_saved \in [1..n -> RepoFiles]
    /\ repos_listed = [i \in 1..Len(repos_saved) |->
                          [name |-> i, language |-> repos_saved[i].language]]
    /\ \E dir \in BOOLEAN :
          /\ repos_saved # <<>> => dir
          /\ files = IF dir
                     THEN Put(Put(EmptyMap, "repositories/list.json", Len(repos_saved)),
                              "repositories/details", Len(repos_saved))
                     ELSE EmptyMap
    /\ UploadOff
    /\ TokenOff
    /\ GenerateOff
    /\ DownloadOff

NextStats == FetchLanguageStats

StatsSpec == InitStats /\ [][NextStats]_vars

\* ------------------------------------------------------------------------
\* RerunSpec: the two statistics steps of a run whose repository step wrote
\* into an output directory that may hold detail files of an earlier run, for
\* every small set of repositories fetched, two of the same name included
\* ------------------------------------------------------------------------

\* A repository as the API returns it (type=all: the account's own and those
\* of others it works on, so two may bear one name).
NamedRepos ==
    [name : 1..MaxFetched, language : 0..MaxLang, size : {1}, valid : {TRUE}]

\* The detail files of an earlier run: at most MaxStale, no two of one name.
StaleDetails ==
    UNION {{d \in [1..n -> NamedRepos] :
               \A i, j \in 1..n : i < j => d[i].name < d[j].name} :
           n \in 0..MaxStale}

\* fetch_all has reached fetch_language_stats: fetch_repositories
\* (fetch.py:150-178) has written list.json and the detail files of the
\* repositories fetched, over those the directory held.
InitRerun ==
    /\ FreshStatistics
    /\ token = FALSE
    /\ step = StepOf("language_stats")
    /\ pc = "idle"
    /\ server = <<>>
    /\ account_n = 0
    /\ \E stale \in StaleDetails, n \in 0..MaxFetched :
          \E fetched \in [1..n -> NamedRepos] :
             /\ repos_listed = Summaries(fetched)
             /\ repos_saved = SaveDetails(stale, fetched)
             /\ files = IF SaveDetails(stale, fetched) = <<>>
                        THEN Put(EmptyMap, "repositories/list.json", n)
                        ELSE Put(Put(EmptyMap, "repositories/list.json", n),
                                 "repositories/details",
                                 Len(SaveDetails(stale, fetched)))
    /\ UploadOff
    /\ TokenOff
    /\ GenerateOff
    /\ DownloadOff

NextRerun ==
    \/ FetchLanguageStats
    \/ FetchRepositoryStats

RerunSpec == InitRerun /\ [][NextRerun]_vars

\* ------------------------------------------------------------------------
\* UploadSpec: one run of the uploader
\* ------------------------------------------------------------------------

InitUpload ==
    /\ ExporterOff
    /\ TokenOff
    /\ GenerateOff
    /\ DownloadOff
    /\ up_args \in [flag_client_id : BOOLEAN, flag_access_token : BOOLEAN,
                    env_client_id : BOOLEAN, env_access_token : BOOLEAN]
    /\ \E n \in 1..MaxPaths : up_paths \in [1..n -> Paths]
    /\ up_pc = "start"
    /\ up_client_id = FALSE
    /\ up_access_token = FALSE
    /\ up_results = NoResults
    /\ up_sent = <<>>
    /\ up_exit = -1

NextUpload ==
    \/ UploadStart
    \/ UploadNext
    \/ UploadExit

UploadSpec == InitUpload /\ [][NextUpload]_vars

\* ------------------------------------------------------------------------
\* TokenSpec: one run of the token helper
\* ------------------------------------------------------------------------

InitToken ==
    /\ ExporterOff
    /\ UploadOff
    /\ GenerateOff
    /\ DownloadOff
    /\ tk_pc = "client_id"
    /\ tk_client_id = FALSE
    /\ tk_url = <<>>
    /\ tk_pasted = FALSE
    /\ tk_access_token = <<>>
    /\ tk_expires_in = <<>>
    /\ tk_written = FALSE
    /\ tk_exit = -1

NextToken ==
    \/ TokenReadClientId
    \/ TokenReadUrl
    \/ TokenSave
    \/ TokenInterrupt

TokenSpec == InitToken /\ [][NextToken]_vars

\* ------------------------------------------------------------------------
\* GenerateSpec: one run of the image generator
\* ------------------------------------------------------------------------

InitGenerate ==
    /\ ExporterOff
    /\ UploadOff
    /\ TokenOff
    /\ DownloadOff
    /\ gen_args \in [api_key : BOOLEAN,
                     reference : {"none", "missing", "unreadable", "readable"},
                     output : {"no_dir", "absent", "old"}]
    /\ gen_pc = "start"
    /\ gen_read = FALSE
    /\ gen_sent = <<>>
    /\ gen_response = "none"
    /\ gen_output = gen_args.output
    /\ gen_exit = -1

NextGenerate ==
    \/ GetApiKey
    \/ GenerateImage
    \/ SaveImage

GenerateSpec == InitGenerate /\ [][NextGenerate]_vars

\* ------------------------------------------------------------------------
\* DownloadSpec: one run of the playlist downloader
\* ------------------------------------------------------------------------

InitDownload ==
    /\ ExporterOff
    /\ UploadOff
    /\ TokenOff
    /\ GenerateOff
    /\ dl_args \in [line : {"accepted", "rejected", "help"},
                    start : 0..MaxIndex,
                    end : 0..MaxIndex,
                    quiet : BOOLEAN,
                    output_ok : BOOLEAN]
    /\ dl_pc = "start"
    /\ dl_runs = <<>>
    /\ dl_status = "none"
    /\ dl_exit = -1

NextDownload ==
    \/ DownloadMain
    \/ DownloadPlaylist

DownloadSpec == InitDownload /\ [][NextDownload]_vars

\* ------------------------------------------------------------------------
\* AuthSpec: one run of either script that needs a credential, the uploader
\* or the image generator
\* ------------------------------------------------------------------------

InitAuth == InitUpload \/ InitGenerate

NextAuth == NextUpload \/ NextGenerate

AuthSpec == InitAuth /\ [][NextAuth]_vars

\* ------------------------------------------------------------------------
\* Properties of _fetch_paginated_data (PaginateSpec)
\* ------------------------------------------------------------------------

\* C1: when no request of the call fails, the call returns exactly the
\* server's items in the order served: nothing dropped, reordered, duplicated
\* or deduplicated.
C1_ReturnsAllItems ==
    (pc = "returned" /\ last_outcome \in {"empty", "last"}) => all_data = server

\* A three-page resource whose items differ only by name in places was
\* returned whole.
C1_Witness ==
    /\ pc = "returned"
    /\ last_outcome = "last"
    /\ Len(requested) = 3
    /\ Len(all_data) = 2 * per_page + 1
    /\ \E i, j \in 1..Len(all_data) :
           /\ i < j
           /\ all_data[i].language = all_data[j].language
           /\ all_data[i].size = all_data[j].size

\* C2: when the request for page k fails, the call returns the concatenation
\* of pages 1..k-1, unchanged and in order, and nothing of page k.
C2_PartialOnFailure ==
    (pc = "returned" /\ last_outcome = "failed") =>
        /\ Len(requested) = page
        /\ all_data = SubSeq(server, 1, (page - 1) * per_page)

\* The request for page 3 failed after two full pages were accumulated.
C2_Witness ==
    /\ pc = "returned"
    /\ last_outcome = "failed"
    /\ page = 3
    /\ Len(all_data) = 2 * per_page
    /\ Len(server) > 2 * per_page

\* The pages requested so far are 1, 2, ..., k; every page before the last
\* requested one was non-empty and named a next page; the loop goes on only
\* after such a page and has stopped only at a page that is empty, names no
\* next page, or raised.
C3_State ==
    /\ requested = [i \in 1..Len(requested) |-> i]
    /\ \A i \in 1..(Len(requested) - 1) :
          ServerPage(server, i) # <<>> /\ HasNext(server, i)
    /\ pc = "paging" =>
          /\ page = Len(requested) + 1
          /\ requested # <<>> =>
                /\ last_outcome = "more"
                /\ ServerPage(server, page - 1) # <<>>
                /\ HasNext(server, page - 1)
    /\ pc = "returned" =>
          /\ requested # <<>>
          /\ page = Len(requested)
          /\ \/ last_outcome \in {"failed", "unparsable"}
             \/ ServerPage(server, page) = <<>>
             \/ ~HasNext(server, page)

\* C3: within one call the pages requested are 1, 2, ..., k, each once, the
\* loop stops right after the first page that is empty, has no next marker or
\* fails, and the call terminates.
C3_PageOrder == []C3_State /\ <>(pc = "returned")

\* A call that requested pages 1, 2, 3 and returned.
C3_Witness ==
    /\ pc = "returned"
    /\ requested = <<1, 2, 3>>
    /\ last_outcome = "last"

\* ------------------------------------------------------------------------
\* Properties of fetch_all (Spec)
\* ------------------------------------------------------------------------

Faulted(r, kind) == r \in DOMAIN faulted /\ faulted[r] = kind

\* Every step after resource r has begun (the calendar only with a token).
LaterStarted(r) ==
    \A i \in (StepOf(r) + 1)..Len(Catalogue) :
        \/ Catalogue[i] \in Range(started)
        \/ Catalogue[i] = "contribution_calendar" /\ ~token

\* C4 as claimed: a failed request while fetching any core resource aborts
\* the run, no later resource is fetched.
C4_CoreFailureAborts ==
    \A r \in Core :
        Faulted(r, "request") =>
            \A q \in Range(started) : StepOf(q) <= StepOf(r)

\* C4 as amended: a failed profile request aborts the run before any other
\* resource; a failed page request of repositories, gists, starred, followers
\* or following is caught in _fetch_paginated_data: the method records the
\* pages it has and the run goes on to the later resources.
C4_ProfileFailureAborts ==
    /\ Faulted("profile", "request") =>
          /\ abort_step = 1
          /\ started = <<"profile">>
          /\ pc \in {"finally", "exited"}
    /\ \A r \in (Core \cap Paginated) :
          Faulted(r, "request") =>
              /\ abort_step # StepOf(r)
              /\ step > StepOf(r) => r \in DOMAIN data_fetched
              /\ (pc = "exited" /\ ~interrupted /\ abort_step = 0) => LaterStarted(r)

\* A page request of repositories failed and the run went through to the
\* repository statistics.
C4_Witness ==
    /\ pc = "exited"
    /\ Faulted("repositories", "request")
    /\ ~interrupted
    /\ "repository_stats" \in Range(started)
    /\ data_fetched["repositories"] = per_page

\* C5: a failure (request error or malformed response) while fetching an
\* optional resource never aborts the run: every later step is executed.
C5_OptionalFailureIsolated ==
    \A r \in Optional :
        r \in DOMAIN faulted =>
            /\ abort_step = 0
            /\ ~interrupted =>
                  \/ step > StepOf(r)
                  \/ step = StepOf(r) /\ pc = "returned"
            /\ (pc = "exited" /\ ~interrupted) => LaterStarted(r)

\* A malformed organization and a failed pull-request search, and the run
\* still reached the last step.
C5_Witness ==
    /\ pc = "exited"
    /\ ~interrupted
    /\ Faulted("organizations", "item")
    /\ Faulted("pull_requests", "request")
    /\ "issues" \in Range(started)
    /\ "repository_stats" \in Range(started)

\* C6: the exit code is 0 only when every resource was fetched without
\* failure, and 1 when a request failed or the run was aborted.
C6_ExitCodeReflectsOutcome ==
    pc = "exited" =>
        /\ (errors # <<>> \/ abort_step # 0) => exit_code = 1
        /\ exit_code = 0 => (errors = <<>> /\ abort_step = 0)

\* Without a token nothing of the calendar exists: its step never began (the
\* GraphQL request is the first thing the step does), no file, no count.
C11_State ==
    ~token =>
        /\ "contribution_calendar" \notin Range(started)
        /\ "contributions/calendar.json" \notin DOMAIN files
        /\ "contribution_calendar" \notin DOMAIN data_fetched

\* Without a token the step taken at the calendar's place sends no request,
\* writes no file and leaves the run at the pull requests, unless the run is
\* interrupted there.
C11_Step ==
    (~token /\ pc = "idle" /\ step = StepOf("contribution_calendar") /\ ~signalled') =>
        /\ step' = StepOf("pull_requests")
        /\ pc' = "idle"
        /\ requests_made' = requests_made
        /\ files' = files

\* C11: in a run without a credential the contribution-calendar step is
\* skipped: no GraphQL request is sent, contributions/calendar.json is not
\* written, and the run goes on to the pull requests and the issues.
C11_CalendarSkipped == []C11_State /\ [][C11_Step]_vars

\* A run without a token that went past the calendar's place and fetched the
\* pull requests and the issues.
C11_Witness ==
    /\ ~token
    /\ pc = "exited"
    /\ ~signalled
    /\ "subscriptions" \in Range(started)
    /\ "pull_requests" \in DOMAIN data_fetched
    /\ "issues" \in DOMAIN data_fetched
    /\ "contributions/calendar.json" \notin DOMAIN files

\* The repository step of this run completed: it recorded its count, which it
\* does after saving repositories/list.json and the detail files.
RepositoryStepCompleted ==
    /\ "repositories" \in DOMAIN data_fetched
    /\ "repositories/list.json" \in DOMAIN files
    /\ data_fetched["repositories"] > 0 => "repositories/details" \in DOMAIN files

\* C12: the two statistics steps begin only after the repository step of the
\* run has completed and saved its files; a statistics file exists only in a
\* run whose repository step completed; and a statistics step that finds no
\* repository data writes no statistics file.
C12_StatsAfterRepositories ==
    /\ \A r \in {"language_stats", "repository_stats"} :
          (r \in Range(started) \/ (step = StepOf(r) /\ pc = "idle")) =>
              RepositoryStepCompleted
    /\ \A f \in {"statistics/languages.json", "statistics/repositories.json"} :
          f \in DOMAIN files => RepositoryStepCompleted
    /\ "statistics/languages.json" \in DOMAIN files =>
          /\ "language_stats" \in Range(started)
          /\ "repositories/details" \in DOMAIN files
    /\ "statistics/repositories.json" \in DOMAIN files =>
          "repository_stats" \in Range(started)
    /\ ("language_stats" \in Range(started) /\ "repositories/details" \notin DOMAIN files) =>
          /\ "statistics/languages.json" \notin DOMAIN files
          /\ "language_stats" \notin DOMAIN data_fetched

\* A run on an account without repositories: both statistics steps ran after
\* the repository step, the language step found no detail files and wrote
\* nothing, the repository statistics were written from the empty list.
C12_Witness ==
    /\ pc = "exited"
    /\ "language_stats" \in Range(started)
    /\ "repository_stats" \in Range(started)
    /\ data_fetched["repositories"] = 0
    /\ "repositories/details" \notin DOMAIN files
    /\ "statistics/languages.json" \notin DOMAIN files
    /\ "statistics/repositories.json" \in DOMAIN files

\* The positions of a call in the record of the finally clause.
CallsOf(name) == {i \in 1..Len(closing) : closing[i] = name}

\* The statistics as they are in memory.
Statistics ==
    [requests_made |-> requests_made, data_fetched |-> data_fetched, errors |-> errors]

\* While the fetch steps run nothing of the finally clause has happened; once
\* the run has ended, metadata.json was written once, before the one summary,
\* and holds the statistics with every entry and error of the run.
C13_State ==
    /\ pc # "exited" =>
          /\ closing = <<>>
          /\ metadata = NoMetadata
          /\ "metadata.json" \notin DOMAIN files
    /\ pc = "exited" =>
          /\ Cardinality(CallsOf("save_metadata")) = 1
          /\ Cardinality(CallsOf("print_summary")) = 1
          /\ \A i \in CallsOf("save_metadata"), j \in CallsOf("print_summary") : i < j
          /\ "metadata.json" \in DOMAIN files
          /\ metadata = Statistics
          /\ \A r \in DOMAIN data_fetched :
                r \in DOMAIN metadata.data_fetched
                    /\ metadata.data_fetched[r] = data_fetched[r]
          /\ metadata.errors = errors

\* Once metadata.json is written no fetch step runs and the statistics do not
\* change.
C13_Step ==
    closing # <<>> =>
        /\ started' = started
        /\ requests_made' = requests_made
        /\ data_fetched' = data_fetched
        /\ errors' = errors
        /\ metadata' = metadata
        /\ closing' = closing

\* C13: in every run of fetch_all (completed, aborted by a propagated error,
\* or interrupted) the statistics are written to metadata.json exactly once,
\* after the last fetch step that ran and before the summary is printed, and
\* what is written holds every data_fetched entry and every error of the run.
C13_MetadataWrittenOnce == []C13_State /\ [][C13_Step]_vars

\* A run aborted by a malformed gist after a failed page request of the
\* repositories: metadata.json holds the error and the entries recorded.
C13_Witness ==
    /\ pc = "exited"
    /\ abort_step = StepOf("gists")
    /\ Len(metadata.errors) = 1
    /\ DOMAIN metadata.data_fetched = {"profile", "repositories"}
    /\ closing = <<"save_metadata", "print_summary">>

\* An interrupt that was raised has reached fetch_all's handler: the run is
\* in the finally clause, which can run, or past it with its summary printed.
C14_State ==
    signalled =>
        /\ interrupted
        /\ pc \in {"finally", "exited"}
        /\ pc = "finally" => ENABLED Finish
        /\ pc = "exited" => CallsOf("print_summary") # {}

\* The step that raises the interrupt ends the fetch steps at once, wherever
\* it arrives; after it no fetch step begins, no request is sent and no
\* count is recorded.
C14_Step ==
    /\ (~signalled /\ signalled') =>
          /\ pc' = "finally"
          /\ data_fetched' = data_fetched
          /\ started' = started
    /\ signalled =>
          /\ started' = started
          /\ step' = step
          /\ requests_made' = requests_made
          /\ data_fetched' = data_fetched

\* C14: an interrupt arriving during any step of fetch_all, also inside the
\* pagination loop or inside an optional resource's handler, is swallowed by
\* no per-resource handler: it stops the remaining fetch steps, reaches the
\* top level of fetch_all, and the summary is printed before the process ends.
C14_InterruptReachesTop == []C14_State /\ [][C14_Step]_vars

\* An interrupt that arrived in the pagination loop of the organizations,
\* after their first page, and the run ended with its summary.
C14_Witness ==
    /\ signalled
    /\ pc = "exited"
    /\ step = StepOf("organizations")
    /\ requested = <<1>>
    /\ Len(all_data) = per_page
    /\ closing = <<"save_metadata", "print_summary">>

\* The resources that are fetched from the server.
Fetched == Core \cup Optional

\* The response for resource r was malformed: a body that does not parse, an
\* item or body without an expected field, a GraphQL answer without the user.
Malformed(r) ==
    r \in DOMAIN faulted /\ faulted[r] \in {"body", "decode", "item", "nouser"}

\* C15 as claimed: a malformed response for any resource of the catalogue is
\* caught, the resource counts zero results, the run goes on.
C15_MalformedIsZeroResults ==
    \A r \in Fetched :
        Malformed(r) =>
            /\ abort_step # StepOf(r)
            /\ step > StepOf(r) => (r \in DOMAIN data_fetched /\ data_fetched[r] = 0)

\* The count recorded after an unparsable page: the whole pages before it.
WholePagesBefore(r) ==
    /\ r \in DOMAIN data_fetched
    /\ data_fetched[r] % per_page = 0
    /\ data_fetched[r] <= account_n

\* C15 as amended: a malformed response for an optional resource is caught
\* and the run goes on; the resource counts 0, except that an unparsable
\* later page of a paginated resource keeps the pages before it. For the
\* core resources an unparsable page is caught the same way in the pagination
\* loop, while an unparsable profile or an item without an expected field
\* aborts the run, and the resource gets no count.
C15_MalformedHandling ==
    \A r \in Fetched :
        Malformed(r) =>
            IF r \in Paginated /\ faulted[r] = "body"
            THEN /\ abort_step # StepOf(r)
                 /\ step > StepOf(r) => WholePagesBefore(r)
            ELSE IF r \in Optional
            THEN /\ abort_step # StepOf(r)
                 /\ step > StepOf(r) => (r \in DOMAIN data_fetched /\ data_fetched[r] = 0)
            ELSE /\ abort_step = StepOf(r)
                 /\ step = StepOf(r)
                 /\ pc \in {"finally", "exited"}
                 /\ r \notin DOMAIN data_fetched
                 /\ \A q \in Range(started) : StepOf(q) <= StepOf(r)

\* The second page of the gists did not parse and the first was kept; an
\* issue lacked a field and the issues count 0; the run reached its end.
C15_Witness ==
    /\ pc = "exited"
    /\ Faulted("gists", "body")
    /\ Faulted("issues", "item")
    /\ data_fetched["gists"] = per_page
    /\ data_fetched["issues"] = 0
    /\ "repository_stats" \in Range(started)

\* The file that holds the items of a resource with a numeric count.
OutputFile(r) ==
    CASE r \in Paginated -> ListFile(r)
      [] r = "contribution_calendar" -> "contributions/calendar.json"
      [] r = "pull_requests" -> "pull_requests/created.json"
      [] r = "issues" -> "issues/created.json"
      [] r = "language_stats" -> "statistics/languages.json"

\* The number of items of resource r written to its file in this run.
ItemsWritten(r) ==
    IF OutputFile(r) \in DOMAIN files THEN files[OutputFile(r)] ELSE 0

\* C16: at the end of a run every numeric entry of data_fetched (all but the
\* booleans of the profile and the repository statistics) equals the
\* number of items of that resource fetched and written to its output file
\* in this run, pull requests, issues and the calendar included.
C16_CountsEqualItemsWritten ==
    pc = "exited" =>
        \A r \in DOMAIN data_fetched \ {"profile", "repository_stats"} :
            data_fetched[r] = ItemsWritten(r)

\* ------------------------------------------------------------------------
\* Properties of upload_multiple_images (UploadSpec)
\* ------------------------------------------------------------------------

\* C7: the summary of upload_multiple_images has total = number of input
\* paths and successful + failed = total; after each processed file
\* successful + failed = length of uploads.
C7_CountsAddUp ==
    up_pc \in {"uploading", "exited"} /\ up_results # NoResults =>
        /\ up_results.total = Len(up_paths)
        /\ up_results.successful + up_results.failed = Len(up_results.uploads)
        /\ up_pc = "exited" =>
              up_results.successful + up_results.failed = up_results.total

\* A finished batch with an upload that succeeded and a file that was missing.
C7_Witness ==
    /\ up_pc = "exited"
    /\ up_results.total = 2
    /\ up_results.successful = 1
    /\ up_results.failed = 1
    /\ \E i \in 1..Len(up_results.uploads) :
          up_results.uploads[i].error = "File not found"

\* The batch ran: upload_multiple_images returned a result for every path.
BatchDone == up_pc = "exited" /\ Len(up_results.uploads) = Len(up_paths)

\* C17: the uploader exits with 0 exactly when every input file was uploaded
\* successfully (failed = 0), and with 1 when at least one file failed,
\* whatever the reason.
C17_ExitCodeReflectsFailures ==
    BatchDone =>
        /\ up_results.failed = 0 => up_exit = 0
        /\ up_results.failed > 0 => up_exit = 1

\* The error of a result that follows from the file alone.
FileError(path) ==
    IF ~Exists(path) THEN "File not found"
    ELSE IF ~ValidExtension(path) THEN "Invalid image format"
    ELSE "none"

\* C18: in a batch a file that fails is recorded for that file only and does
\* not stop the batch: the results so far are one per path, in input order,
\* the i-th carrying the i-th path; a file's own defect shows in its result
\* and in no other; and the batch ends only with a result for every path.
C18_OneResultPerPath ==
    up_pc \in {"uploading", "exited"} /\ up_results # NoResults =>
        /\ Len(up_results.uploads) <= Len(up_paths)
        /\ \A i \in 1..Len(up_results.uploads) :
              /\ up_results.uploads[i].original_path = up_paths[i]
              /\ FileError(up_paths[i]) # "none" =>
                    up_results.uploads[i].error = FileError(up_paths[i])
              /\ FileError(up_paths[i]) = "none" =>
                    up_results.uploads[i].error \notin
                        {"File not found", "Invalid image format"}
        /\ up_pc = "exited" => Len(up_results.uploads) = Len(up_paths)

\* A batch whose first file was missing and whose second was uploaded.
C18_Witness ==
    /\ up_pc = "exited"
    /\ up_paths = <<"missing.png", "photo.png">>
    /\ Len(up_results.uploads) = 2
    /\ up_results.uploads[1].error = "File not found"
    /\ up_results.uploads[2].success
    /\ up_results.uploads[2].original_path = "photo.png"

\* ------------------------------------------------------------------------
\* Properties of fetch_language_stats (StatsSpec)
\* ------------------------------------------------------------------------

LanguagesWritten == "statistics/languages.json" \in DOMAIN files

RECURSIVE SumOf(_, _)
\* The sum of f[x].total_size_kb or f[x].percentage over a set of keys.
SumOf(f, keys) ==
    IF keys = {} THEN 0
    ELSE LET k == CHOOSE x \in keys : TRUE
         IN  f[k] + SumOf(f, keys \ {k})

SizesOf(json) == [l \in DOMAIN json.languages |-> json.languages[l].total_size_kb]

PercentagesOf(json) == [l \in DOMAIN json.languages |-> json.languages[l].percentage]

\* C8: in languages.json the per-language total_size_kb sum to no more than
\* the top-level total_size_kb.
C8_LanguageSizesWithinTotal ==
    LanguagesWritten =>
        SumOf(SizesOf(languages_json), DOMAIN languages_json.languages)
            <= languages_json.total_size_kb

\* Two languages with sizes, next to a repository without language whose size
\* is counted nowhere.
C8_Witness ==
    /\ LanguagesWritten
    /\ languages_json.language_count = 2
    /\ languages_json.total_size_kb > 0
    /\ \E i \in 1..Len(repos_saved) :
          repos_saved[i].language = 0 /\ repos_saved[i].size > 0

\* C9: the percentages (hundredths of a percent here) sum to 100 within half
\* a hundredth per language when total_size_kb > 0, and are all 0 when
\* total_size_kb = 0.
C9_PercentagesSum ==
    LanguagesWritten =>
        LET sum == SumOf(PercentagesOf(languages_json), DOMAIN languages_json.languages)
            off == IF sum < 10000 THEN 10000 - sum ELSE sum - 10000
        IN  /\ languages_json.total_size_kb > 0 =>
                  2 * off <= languages_json.language_count
            /\ languages_json.total_size_kb = 0 =>
                  \A l \in DOMAIN languages_json.languages :
                      languages_json.languages[l].percentage = 0

\* Two languages holding one third and two thirds: 33.33 + 66.67.
C9_Witness ==
    /\ LanguagesWritten
    /\ languages_json.total_size_kb = 3
    /\ languages_json.language_count = 2
    /\ \E l \in DOMAIN languages_json.languages :
          languages_json.languages[l].percentage = 3333

\* ------------------------------------------------------------------------
\* Properties of the token helper (TokenSpec)
\* ------------------------------------------------------------------------

\* The URL names the access_token field somewhere.
HasAccessTokenField(url) == \E i \in 1..Len(url) : url[i] = "access_token="

\* C10: a pasted redirect URL without access_token field makes the run fail
\* with exit code 1 and never writes imgur_credentials.txt; the file is
\* written only in a run that extracted an access token.
C10_NoTokenNoWrite ==
    /\ (tk_pasted /\ ~HasAccessTokenField(tk_url)) =>
          /\ ~tk_written
          /\ tk_pc = "exited"
          /\ tk_exit = 1
    /\ tk_written => (HasAccessTokenField(tk_url) /\ tk_access_token # <<>>)

\* A URL with other fields but no access_token was pasted and the run ended
\* with 1.
C10_Witness ==
    /\ tk_pasted
    /\ tk_url = <<"expires_in=", "7", "&", "x">>
    /\ tk_exit = 1
    /\ ~tk_written

\* ------------------------------------------------------------------------
\* Properties of the image generator and of the authentication checks
\* (AuthSpec, GenerateSpec)
\* ------------------------------------------------------------------------

\* The uploader was given no credential: no --client-id, no --access-token,
\* no IMGUR_CLIENT_ID, no IMGUR_ACCESS_TOKEN.
NoUploadCredential ==
    /\ ~up_args.flag_client_id
    /\ ~up_args.flag_access_token
    /\ ~up_args.env_client_id
    /\ ~up_args.env_access_token

C20_OneRequestWriteAfterImage ==
    /\ Len(gen_sent) <= 1
    /\ gen_output # gen_args.output =>
          /\ Len(gen_sent) = 1
          /\ CarriesImage(gen_response)
    /\ (gen_pc \notin {"off", "start", "generate"} /\ gen_response = "none") =>
          /\ gen_sent = <<>>
          /\ gen_pc = "exited"
          /\ gen_exit = 1
          /\ gen_output = gen_args.output
    /\ (gen_response # "none" /\ ~CarriesImage(gen_response)) =>
          /\ gen_pc = "exited"
          /\ gen_exit = 1
          /\ gen_output = gen_args.output
    /\ gen_exit = 0 => (gen_output = "new" /\ CarriesImage(gen_response))

\* The request was sent and answered 200 without an image: exit status 1 and
\* the old output file untouched.
C20_Witness ==
    /\ gen_pc = "exited"
    /\ gen_response = "no_image"
    /\ gen_sent = <<"Bearer">>
    /\ gen_args.output = "old"
    /\ gen_output = "old"
    /\ gen_exit = 1

\* ------------------------------------------------------------------------
\* Properties of the playlist downloader (DownloadSpec)
\* ------------------------------------------------------------------------

\* The binary ran and exited with status 0.
BinarySucceeded == dl_runs # <<>> /\ dl_status = "zero"

\* The binary is invoked at most once, and only for an accepted command line
\* with 1 <= start <= end.
InvokedOnceInRange ==
    /\ Len(dl_runs) <= 1
    /\ dl_runs # <<>> =>
          /\ dl_args.line = "accepted"
          /\ 1 <= dl_args.start
          /\ dl_args.start <= dl_args.end

\* C21 as stated: the binary is invoked at most once and only when
\* 1 <= start <= end; the exit code is 0 exactly when the binary was invoked
\* and exited with 0, and 1 in every other case.
C21_ExitCodeZeroOrOne ==
    /\ InvokedOnceInRange
    /\ dl_pc = "exited" => dl_exit = (IF BinarySucceeded THEN 0 ELSE 1)

\* C21 amended: for a command line the parser accepts and a run that is not
\* interrupted, the binary is invoked at most once and only when
\* 1 <= start <= end, and the exit code is 0 exactly when it was invoked and
\* exited with 0, and 1 otherwise; a rejected command line ends with 2, a
\* request for help with 0, an interrupted download with 130, the first two
\* without an invocation.
C21_ExitCodeOfAcceptedRun ==
    /\ InvokedOnceInRange
    /\ dl_pc = "exited" =>
          CASE dl_args.line = "help" -> dl_exit = 0 /\ dl_runs = <<>>
            [] dl_args.line = "rejected" -> dl_exit = 2 /\ dl_runs = <<>>
            [] OTHER ->
                 IF dl_status = "interrupted"
                 THEN dl_exit = 130 /\ dl_runs # <<>>
                 ELSE dl_exit = (IF BinarySucceeded THEN 0 ELSE 1)

\* A run that invoked the binary for the range 1..2 and ended with 0.
C21_Witness ==
    /\ dl_pc = "exited"
    /\ Len(dl_runs) = 1
    /\ dl_runs[1].playlist_start = 1
    /\ dl_runs[1].playlist_end = 2
    /\ dl_status = "zero"
    /\ dl_exit = 0

\* ------------------------------------------------------------------------
\* Order of the fetch steps (Spec)
\* ------------------------------------------------------------------------

\* The order in which the resources are to be processed.
FixedOrder ==
    << "profile", "repositories", "gists", "starred", "followers", "following",
       "organizations", "events", "subscriptions", "contribution_calendar",
       "pull_requests", "issues", "language_stats", "repository_stats" >>

PlaceOf(r) == CHOOSE i \in 1..Len(FixedOrder) : FixedOrder[i] = r

\* The resources begun so far were begun in the fixed order, none of them
\* twice, none of them beyond the current step; a pagination in progress
\* belongs to the resource begun last.
C22_State ==
    /\ \A i \in 1..Len(started) : started[i] \in Range(FixedOrder)
    /\ \A i \in 1..(Len(started) - 1) :
          PlaceOf(started[i]) < PlaceOf(started[i + 1])
    /\ started # <<>> => PlaceOf(started[Len(started)]) <= step
    /\ pc \in {"paging", "returned"} =>
          /\ started # <<>>
          /\ started[Len(started)] = FixedOrder[step]

\* A resource is begun only while no call is in progress, and it is the one
\* at the current place of the order; a request is sent only for the resource
\* begun last, which is the one at the current place; fetch_all never goes
\* back and never skips a place.
C22_Step ==
    /\ step' \in {step, step + 1}
    /\ started' # started =>
          /\ pc = "idle"
          /\ started' = Append(started, FixedOrder[step])
    /\ requests_made' # requests_made =>
          /\ requests_made' = requests_made + 1
          /\ started' # <<>>
          /\ started'[Len(started')] = FixedOrder[step]
    /\ step' # step => pc' \in {"idle", "finally"}

\* C22: fetch_all processes the catalogue sequentially in the one fixed
\* order (profile, ..., repository stats): no request of a resource is sent
\* before the preceding resource is done, and no resource is fetched twice.
C22_FixedSequentialOrder == []C22_State /\ [][C22_Step]_vars

\* A run with a token that went through the whole catalogue, the second page
\* of a list included.
C22_Witness ==
    /\ pc = "exited"
    /\ started = FixedOrder
    /\ requests_made > Len(FixedOrder)

\* ------------------------------------------------------------------------
\* Credentials of an upload (UploadSpec)
\* ------------------------------------------------------------------------

\* The uploads so far that got as far as the request.
SentUploads ==
    {i \in 1..Len(up_results.uploads) :
        Sends(up_paths[i], up_client_id, up_access_token)}

\* C23: the access token takes precedence over the client id: every request
\* is sent with the Bearer scheme when an access token is supplied, with the
\* Client-ID scheme only when none is (and a client id is), and a result's
\* upload_type is "authenticated" exactly when an access token is supplied,
\* "anonymous" otherwise, whether or not the request was sent.
C23_AccessTokenPrecedence ==
    /\ Len(up_sent) = Cardinality(SentUploads)
    /\ \A i \in 1..Len(up_sent) :
          /\ up_access_token => up_sent[i] = "Bearer"
          /\ up_sent[i] = "Client-ID" => ~up_access_token /\ up_client_id
          /\ up_sent[i] \in {"Bearer", "Client-ID"}
    /\ \A i \in 1..Len(up_results.uploads) :
          /\ up_results.uploads[i].upload_type = "authenticated" <=> up_access_token
          /\ up_results.uploads[i].upload_type = "anonymous" <=> ~up_access_token

\* Both credentials were supplied, one image was sent with the Bearer scheme
\* and one file never got as far as the request.
C23_Witness ==
    /\ up_pc = "exited"
    /\ up_client_id /\ up_access_token
    /\ up_sent = <<"Bearer">>
    /\ Len(up_results.uploads) = 2
    /\ \A i \in 1..2 : up_results.uploads[i].upload_type = "authenticated"

\* ------------------------------------------------------------------------
\* The data_fetched entries of the optional steps (Spec)
\* ------------------------------------------------------------------------

\* The fetch method of optional resource r was called and has returned.
Returned(r) ==
    /\ \E i \in 1..Len(started) : started[i] = r
    /\ step > StepOf(r)

\* A failure of resource r went to the handler of r's fetch method: an item
\* without a field the summary needs, or a failed request or an unparsable
\* body outside the pagination loop.
CaughtByHandler(r) ==
    /\ r \in DOMAIN faulted
    /\ \/ faulted[r] = "item"
       \/ r \notin Paginated /\ faulted[r] \in {"request", "body", "decode"}

C24_State ==
    \A r \in Optional :
        Returned(r) =>
            /\ r \in DOMAIN data_fetched
            /\ CaughtByHandler(r) => data_fetched[r] = 0

C24_Step ==
    \A r \in DOMAIN data_fetched :
        /\ r \in DOMAIN data_fetched'
        /\ data_fetched'[r] # data_fetched[r] =>
              /\ step \in 1..Len(Catalogue)
              /\ r = Catalogue[step]

\* C24: once the fetch method of an optional resource has returned (the
\* calendar's when it is called at all), data_fetched has an entry for the
\* resource, which is 0 when the method's own handler caught a failure; a
\* step changes no entry but that of its own resource.
C24_OptionalStepsRecord == []C24_State /\ [][C24_Step]_vars

\* The handler of fetch_pull_requests caught a failed request after the
\* organizations were counted, and the issues were counted after it.
C24_Witness ==
    /\ Returned("issues")
    /\ CaughtByHandler("pull_requests")
    /\ faulted["pull_requests"] = "request"
    /\ data_fetched["pull_requests"] = 0
    /\ data_fetched["organizations"] > 0
    /\ data_fetched["issues"] > 0

\* ------------------------------------------------------------------------
\* Shape of an upload result (UploadSpec)
\* ------------------------------------------------------------------------

\* C25: every result of upload_image_to_imgur has one of two shapes: success
\* with imgur_data set and no error, or failure with no imgur_data and an
\* error message.
C25_ResultShape ==
    \A i \in 1..Len(up_results.uploads) :
        LET result == up_results.uploads[i] IN
        \/ /\ result.success
           /\ result.imgur_data # "none"
           /\ result.error = "none"
        \/ /\ ~result.success
           /\ result.imgur_data = "none"
           /\ result.error # "none"

\* ------------------------------------------------------------------------
\* Agreement of the two statistics files (RerunSpec)
\* ------------------------------------------------------------------------

\* Both statistics files were written by this run.
BothWritten ==
    /\ "statistics/languages.json" \in DOMAIN files
    /\ "statistics/repositories.json" \in DOMAIN files

\* repo_count of language l in statistics/languages.json, 0 without an entry.
CountedInLanguages(l) ==
    IF l \in DOMAIN languages_json.languages
    THEN languages_json.languages[l].repo_count ELSE 0

\* repos of language l in statistics/repositories.json, 0 without an entry.
CountedInRepositories(l) ==
    IF l \in DOMAIN repositories_json.by_language
    THEN repositories_json.by_language[l].repos ELSE 0

\* C26: when both statistics files are written, for every language the
\* repo_count of languages.json equals the repos of repositories.json, and
\* both equal the number of repositories of that language this run fetched.
C26_StatisticsAgree ==
    BothWritten =>
        \A l \in 1..MaxLang :
            /\ CountedInLanguages(l) = CountedInRepositories(l)
            /\ CountedInRepositories(l) = RepoCount(repos_listed, l)

\* ------------------------------------------------------------------------
\* The request counter and the error list (Spec)
\* ------------------------------------------------------------------------

\* A step that attempts a request: an iteration of the pagination loop, or
\* the call of a fetch method that sends one request of its own.
RequestAttempted ==
    \/ /\ pc = "paging"
       /\ Len(requested') = Len(requested) + 1
    \/ /\ started' # started
       /\ started'[Len(started')] \in
             {"profile", "contribution_calendar", "pull_requests", "issues"}

\* A step whose request failed: _make_request or _make_graphql_request
\* raised RequestException.
RequestFailed ==
    /\ faulted' # faulted
    /\ faulted'[Catalogue[step]] \in {"request", "decode"}

C27_State ==
    /\ requests_made >= 0
    /\ Len(errors) <= requests_made
    /\ pc \in {"paging", "returned"} => Len(requested) <= requests_made
    /\ started = <<>> => requests_made = 0 /\ errors = <<>>

C27_Step ==
    /\ requests_made' = requests_made + (IF RequestAttempted THEN 1 ELSE 0)
    /\ IF RequestFailed
       THEN /\ RequestAttempted
            /\ errors' = Append(errors, Catalogue[step])
       ELSE errors' = errors

\* C27: requests_made counts the REST and GraphQL requests attempted so far,
\* the failed ones included, and never decreases; errors only grows, by one
\* entry for each failed request, appended when the failure occurs, and is
\* never longer than requests_made.
C27_RequestsAndErrors == []C27_State /\ [][C27_Step]_vars

\* A run in which the second page of the repositories and the search for
\* pull requests failed, after a first page that did not.
C27_Witness ==
    /\ pc = "exited"
    /\ errors = <<"repositories", "pull_requests">>
    /\ requests_made > 3
    /\ data_fetched["repositories"] = per_page

====
